---- MODULE Spec2Model ----
(***************************************************************************)
(* Model of the authentication service: the bearer-token gate verifyToken  *)
(* and the three handlers register, login and getProfile, run by           *)
(* concurrent requests against one user store and one connection pool.     *)
(* Every await of a handler is a step boundary: no step spans an await.    *)
(***************************************************************************)
EXTENDS Naturals, Sequences, FiniteSets, TLC

VARIABLES
    users,      \* rows of the users table
    nextId,     \* AUTO_INCREMENT counter of the users table
    poolSize,   \* connectionLimit of the pool, fixed at start-up
    checkedOut, \* connections currently checked out of the pool
    now,        \* the clock jwt.sign and jwt.verify read
    issued,     \* every token jwt.sign has produced
    pc,         \* per request: the await it is parked at
    req,        \* per request: route and body or Authorization header
    conn,       \* per request: does it hold a pool connection
    loc,        \* per request: the handler's locals
    reqUser,    \* per request: req.user
    resp,       \* per request: the response sent, if any
    sent,       \* per request: how many responses were sent
    trace       \* per request: the collaborator calls made, in order

vars == <<users, nextId, poolSize, checkedOut, now, issued, pc, req, conn, loc,
          reqUser, resp, sent, trace>>

\* ------------------------------------------------------------------ bounds
NumReqs == 2
MaxPoolSize == 2
MaxTime == 2

Reqs == 1..NumReqs

\* ------------------------------------------------------- program constants
\* process.env.JWT_EXPIRY || '7d': one clock unit of the model is that TTL.
JWT_EXPIRY == 1
\* bcryptjs.hash(password, 10)
SaltRounds == 10
\* "Bearer " = 7 karakter
BearerLen == 7
\* password.length < 6
MinPasswordLen == 6
\* process.env.JWT_SECRET || 'secret'
JWT_SECRET == "secret"

\* ------------------------------------------------------------------ inputs
Usernames == {"", "alice", "bob"}
Passwords == {"", "wrong", "secret1"}
\* full_name is optional: "" is the body without it.
FullNames == {"", "Al"}
\* An email is the sequence of its characters.
Emails == { <<>>,
            <<"a", "@", "b">>,
            <<"a", " ", "@", "b", ".", "c">>,
            <<"a", "@", "b", ".", "c">>,
            <<"b", "@", "b", ".", "c">> }

NoClaims == [id |-> 0, email |-> <<>>, username |-> ""]
NoRow == [id |-> 0, username |-> "", email |-> <<>>,
          password |-> [alg |-> "none", cost |-> 0, of |-> ""], full_name |-> ""]
NoView == [id |-> 0, username |-> "", email |-> <<>>, full_name |-> ""]
NoHash == [alg |-> "none", cost |-> 0, of |-> ""]
NoToken == [fmt |-> "empty", claims |-> NoClaims, iat |-> 0, exp |-> 0, sig |-> ""]
NoResp == [status |-> 0, message |-> "", token |-> NoToken, user |-> NoView]
NoLoc == [hashedPassword |-> NoHash, user |-> NoRow, insertId |-> 0]
NoReq == [op |-> "none"]

\* An Authorization header: the characters before the token, then the token.
BearerPrefix == <<"B", "e", "a", "r", "e", "r", " ">>
TokenScheme == <<"T", "o", "k", "e", "n", " ">>
LowerPrefix == <<"b", "e", "a", "r", "e", "r", " ">>
NoHeader == [present |-> FALSE, text |-> <<>>, token |-> NoToken]
\* "abc": not a JWT.
Garbage == [fmt |-> "garbage", claims |-> NoClaims, iat |-> 0, exp |-> 0, sig |-> ""]
\* A well-formed, unexpired JWT signed with another key.
Forged == [fmt |-> "jwt",
           claims |-> [id |-> 1, email |-> <<"a", "@", "b", ".", "c">>,
                       username |-> "alice"],
           iat |-> 0, exp |-> MaxTime + 1, sig |-> "other"]
Headers ==
    {NoHeader}
    \cup { [present |-> TRUE, text |-> x, token |-> t] :
             x \in {TokenScheme, LowerPrefix}, t \in issued \cup {Garbage} }
    \cup { [present |-> TRUE, text |-> BearerPrefix, token |-> t] :
             t \in issued \cup {Garbage, Forged, NoToken} }

\* ------------------------------------------------------------- collaborators
\* Faulty variant: the password is stored as submitted.
BcryptHashSkipped(password, rounds) == [alg |-> "plain", cost |-> 0, of |-> password]

\* bcryptjs.hash: a one-way transform of the plaintext at the given cost.
BcryptHash(password, rounds) == [alg |-> "bcrypt", cost |-> rounds, of |-> password]

\* bcryptjs.compare: recompute and compare; false on any mismatch.
BcryptCompare(password, hash) == hash.alg = "bcrypt" /\ hash.of = password

\* jwt.sign(claims, secret, {expiresIn}): claims plus iat and exp, signed.
JwtSign(claims, secret, ttl) ==
    [fmt |-> "jwt", claims |-> claims, iat |-> now, exp |-> now + ttl, sig |-> secret]

\* Faulty variant: the expiry is not checked.
JwtVerifiesNoExpiry(token, secret) ==
    /\ token.fmt = "jwt"
    /\ token.sig = secret

\* jwt.verify(token, secret) returns the payload iff the token is a JWT,
\* carries the signature of the secret and is not expired; throws otherwise.
JwtVerifies(token, secret) ==
    /\ token.fmt = "jwt"
    /\ token.sig = secret
    /\ now < token.exp

\* authHeader.startsWith(prefix)
StartsWith(text, prefix) ==
    /\ Len(text) >= Len(prefix)
    /\ SubSeq(text, 1, Len(prefix)) = prefix

\* authHeader.substring(n): what follows the first n characters.
Substring(header, n) ==
    [header EXCEPT !.text = SubSeq(header.text, n + 1, Len(header.text))]

\* /^[^\s@]+@[^\s@]+\.[^\s@]+$/.test(email)
NotSpaceAt(c) == c # " " /\ c # "@"
EmailRegexTest(email) ==
    \E i \in 1..Len(email) :
        /\ email[i] = "@"
        /\ \A k \in 1..Len(email) : k # i => NotSpaceAt(email[k])
        /\ i > 1
        /\ \E j \in (i + 2)..(Len(email) - 1) : email[j] = "."

\* Faulty variant: the pre-check matches on the email alone.
SelectByEmailOnly(email, username) == { u \in users : u.email = email }

\* SELECT ... FROM users WHERE email = ? OR username = ?
SelectByEmailOrUsername(email, username) ==
    { u \in users : u.email = email \/ u.username = username }

\* SELECT ... FROM users WHERE email = ?
SelectByEmail(email) == { u \in users : u.email = email }

\* The users table's UNIQUE keys on username and email reject the insert.
UniqueKeyViolation(username, email) ==
    \E u \in users : u.email = email \/ u.username = username

\* ------------------------------------------------------------------ helpers
Respond(r, status, message, token, user) ==
    /\ resp' = [resp EXCEPT ![r] = [status |-> status, message |-> message,
                                    token |-> token, user |-> user]]
    /\ sent' = [sent EXCEPT ![r] = @ + 1]

Log(r, ev) == trace' = [trace EXCEPT ![r] = Append(@, ev)]

\* connection.release() in the finally block
Release(r) ==
    /\ conn' = [conn EXCEPT ![r] = FALSE]
    /\ checkedOut' = checkedOut - 1

\* const connection = await pool.getConnection() resolves
Acquire(r) ==
    /\ checkedOut < poolSize
    /\ checkedOut' = checkedOut + 1
    /\ conn' = [conn EXCEPT ![r] = TRUE]

Init ==
    /\ users = {}
    /\ nextId = 1
    /\ poolSize \in 1..MaxPoolSize
    /\ checkedOut = 0
    /\ now = 0
    /\ issued = {}
    /\ pc = [r \in Reqs |-> "idle"]
    /\ req = [r \in Reqs |-> NoReq]
    /\ conn = [r \in Reqs |-> FALSE]
    /\ loc = [r \in Reqs |-> NoLoc]
    /\ reqUser = [r \in Reqs |-> NoClaims]
    /\ resp = [r \in Reqs |-> NoResp]
    /\ sent = [r \in Reqs |-> 0]
    /\ trace = [r \in Reqs |-> <<>>]

\* ----------------------------------------------------------------- register
\* Faulty variant: the password length check is missing.
RegisterValidationErrorNoLength(username, email, password) ==
    IF username = "" \/ email = <<>> \/ password = ""
    THEN "Username, email, and password are required"
    ELSE IF ~EmailRegexTest(email)
    THEN "Invalid email format"
    ELSE ""

\* Lines 54-79: the message of the first validation that fails, "" if none.
RegisterValidationError(username, email, password) ==
    IF username = "" \/ email = <<>> \/ password = ""
    THEN "Username, email, and password are required"
    ELSE IF ~EmailRegexTest(email)
    THEN "Invalid email format"
    ELSE IF Len(password) < MinPasswordLen
    THEN "Password must be at least 6 characters"
    ELSE ""

\* Lines 51-82: destructure the body, validate, then await pool.getConnection().
registerValidate(r) ==
    /\ pc[r] = "idle"
    /\ \E u \in Usernames, e \in Emails, p \in Passwords, f \in FullNames :
        /\ req' = [req EXCEPT ![r] = [op |-> "register", username |-> u,
                                      email |-> e, password |-> p,
                                      full_name |-> f]]
        /\ IF RegisterValidationError(u, e, p) # ""
           THEN /\ Respond(r, 400, RegisterValidationError(u, e, p),
                           NoToken, NoView)
                /\ pc' = [pc EXCEPT ![r] = "done"]
           ELSE /\ pc' = [pc EXCEPT ![r] = "r_getConnection"]
                /\ UNCHANGED <<resp, sent>>
    /\ UNCHANGED <<users, nextId, poolSize, checkedOut, now, issued, conn, loc, reqUser, trace>>

\* Lines 138-144: the catch block of register, entered when `call` threw.
registerError(r, call) ==
    /\ Respond(r, 500, "Error during registration", NoToken, NoView)
    /\ pc' = [pc EXCEPT ![r] = "done"]
    /\ trace' = [trace EXCEPT ![r] = @ \o <<call, "throw">>]

\* Line 82: await pool.getConnection(); waits while the pool is exhausted,
\* rejects when the pool cannot connect.
registerGetConnection(r) ==
    /\ pc[r] = "r_getConnection"
    /\ \/ /\ Acquire(r)
          /\ Log(r, "getConnection")
          /\ pc' = [pc EXCEPT ![r] = "r_select"]
          /\ UNCHANGED <<resp, sent>>
       \/ /\ registerError(r, "getConnection")
          /\ UNCHANGED <<checkedOut, conn>>
    /\ UNCHANGED <<users, nextId, poolSize, now, issued, req, loc, reqUser>>

\* Faulty variant: the 409 return leaves without releasing the connection.
registerConflictNoRelease(r) ==
    /\ Respond(r, 409, "Email or username already registered", NoToken, NoView)
    /\ pc' = [pc EXCEPT ![r] = "done"]
    /\ UNCHANGED <<conn, checkedOut>>

\* Lines 91-97 and 135-137: the 409 response, return, and the finally block.
registerConflict(r) ==
    /\ Respond(r, 409, "Email or username already registered", NoToken, NoView)
    /\ pc' = [pc EXCEPT ![r] = "done"]
    /\ Release(r)

\* Lines 86-101: the duplicate pre-check, then await bcryptjs.hash.
registerSelect(r) ==
    /\ pc[r] = "r_select"
    /\ \/ /\ registerError(r, "select")
          /\ Release(r)
       \/ /\ SelectByEmailOrUsername(req[r].email, req[r].username) # {}
          /\ Log(r, "select")
          /\ registerConflict(r)
       \/ /\ SelectByEmailOrUsername(req[r].email, req[r].username) = {}
          /\ Log(r, "select")
          /\ pc' = [pc EXCEPT ![r] = "r_hash"]
          /\ UNCHANGED <<resp, sent, conn, checkedOut>>
    /\ UNCHANGED <<users, nextId, poolSize, now, issued, req, loc, reqUser>>

\* Line 101: bcryptjs.hash resolves (or rejects), then the INSERT is sent.
registerHash(r) ==
    /\ pc[r] = "r_hash"
    /\ \/ /\ registerError(r, "hash")
          /\ Release(r)
          /\ UNCHANGED loc
       \/ /\ Log(r, "hash")
          /\ loc' = [loc EXCEPT ![r].hashedPassword =
                                    BcryptHash(req[r].password, SaltRounds)]
          /\ pc' = [pc EXCEPT ![r] = "r_insert"]
          /\ UNCHANGED <<resp, sent, conn, checkedOut>>
    /\ UNCHANGED <<users, nextId, poolSize, now, issued, req, reqUser>>

\* Faulty variant: the rejection of the INSERT is swallowed and register carries on.
registerInsertRejectedSwallowed(r) ==
    /\ Log(r, "insert")
    /\ pc' = [pc EXCEPT ![r] = "r_sign"]
    /\ UNCHANGED <<users, nextId, loc, resp, sent, conn, checkedOut>>

\* Lines 104-107 with 135-144: the INSERT rejected by the store.
registerInsertRejected(r) ==
    /\ registerError(r, "insert")
    /\ Release(r)
    /\ UNCHANGED <<users, nextId, loc>>

\* Lines 104-107: the INSERT runs in the store; a store error or a duplicate
\* key rejects the query.
registerInsert(r) ==
    /\ pc[r] = "r_insert"
    /\ \/ registerInsertRejected(r)
       \/ /\ UniqueKeyViolation(req[r].username, req[r].email)
          /\ registerInsertRejected(r)
       \/ /\ ~UniqueKeyViolation(req[r].username, req[r].email)
          /\ Log(r, "insert")
          /\ users' = users \cup {[id |-> nextId, username |-> req[r].username,
                                   email |-> req[r].email,
                                   password |-> loc[r].hashedPassword,
                                   full_name |-> req[r].full_name]}
          /\ nextId' = nextId + 1
          /\ loc' = [loc EXCEPT ![r].insertId = nextId]
          /\ pc' = [pc EXCEPT ![r] = "r_sign"]
          /\ UNCHANGED <<resp, sent, conn, checkedOut>>
    /\ UNCHANGED <<poolSize, now, issued, req, reqUser>>

\* Faulty variant: the id signed is the counter's next value, not the insertId.
RegisterClaimsNextId(r) ==
    [id |-> nextId, email |-> req[r].email, username |-> req[r].username]

\* Lines 111-115: the claims register signs.
RegisterClaims(r) ==
    [id |-> loc[r].insertId, email |-> req[r].email, username |-> req[r].username]

\* Lines 125-130: the user object of the 201 response.
RegisterView(r) ==
    [id |-> loc[r].insertId, username |-> req[r].username,
     email |-> req[r].email, full_name |-> req[r].full_name]

\* Lines 110-137: jwt.sign, the 201 response, and the finally block.
registerSign(r) ==
    /\ pc[r] = "r_sign"
    /\ Release(r)
    /\ \/ /\ registerError(r, "sign")
          /\ UNCHANGED issued
       \/ LET token == JwtSign(RegisterClaims(r), JWT_SECRET, JWT_EXPIRY)
          IN  /\ Log(r, "sign")
              /\ issued' = issued \cup {token}
              /\ Respond(r, 201, "User registered successfully", token,
                         RegisterView(r))
              /\ pc' = [pc EXCEPT ![r] = "done"]
    /\ UNCHANGED <<users, nextId, poolSize, now, req, loc, reqUser>>

register(r) ==
    \/ registerValidate(r)
    \/ registerGetConnection(r)
    \/ registerSelect(r)
    \/ registerHash(r)
    \/ registerInsert(r)
    \/ registerSign(r)

\* -------------------------------------------------------------------- login
\* Faulty variant: the catch block logs and sends nothing.
loginErrorSilent(r, call) ==
    /\ pc' = [pc EXCEPT ![r] = "done"]
    /\ trace' = [trace EXCEPT ![r] = @ \o <<call, "throw">>]
    /\ UNCHANGED <<resp, sent>>

\* Lines 225-231: the catch block of login, entered when `call` threw.
loginError(r, call) ==
    /\ Respond(r, 500, "Error during login", NoToken, NoView)
    /\ pc' = [pc EXCEPT ![r] = "done"]
    /\ trace' = [trace EXCEPT ![r] = @ \o <<call, "throw">>]

\* Faulty variant: the 401 return leaves without releasing the connection.
loginUserNotFoundNoRelease(r) ==
    /\ Respond(r, 401, "Invalid email or password", NoToken, NoView)
    /\ pc' = [pc EXCEPT ![r] = "done"]
    /\ UNCHANGED <<conn, checkedOut>>

\* Lines 174-180 and 222-224: no row for the email.
loginUserNotFound(r) ==
    /\ Respond(r, 401, "Invalid email or password", NoToken, NoView)
    /\ pc' = [pc EXCEPT ![r] = "done"]
    /\ Release(r)

\* Faulty variant: the mismatch is not returned on and login goes on to sign.
loginWrongPasswordFallsThrough(r) ==
    /\ pc' = [pc EXCEPT ![r] = "l_sign"]
    /\ UNCHANGED <<resp, sent, conn, checkedOut>>

\* Faulty variant: the mismatch gets a message of its own.
loginWrongPasswordDistinct(r) ==
    /\ Respond(r, 401, "Wrong password", NoToken, NoView)
    /\ pc' = [pc EXCEPT ![r] = "done"]
    /\ Release(r)

\* Lines 188-194 and 222-224: bcryptjs.compare returned false.
loginWrongPassword(r) ==
    /\ Respond(r, 401, "Invalid email or password", NoToken, NoView)
    /\ pc' = [pc EXCEPT ![r] = "done"]
    /\ Release(r)

\* Line 155: the message of the validation that fails, "" if none.
LoginValidationError(email, password) ==
    IF email = <<>> \/ password = ""
    THEN "Email and password are required"
    ELSE ""

\* Lines 152-164: destructure the body, validate, then await pool.getConnection().
loginValidate(r) ==
    /\ pc[r] = "idle"
    /\ \E e \in Emails, p \in Passwords :
        /\ req' = [req EXCEPT ![r] = [op |-> "login", email |-> e, password |-> p]]
        /\ IF LoginValidationError(e, p) # ""
           THEN /\ Respond(r, 400, LoginValidationError(e, p), NoToken, NoView)
                /\ pc' = [pc EXCEPT ![r] = "done"]
           ELSE /\ pc' = [pc EXCEPT ![r] = "l_getConnection"]
                /\ UNCHANGED <<resp, sent>>
    /\ UNCHANGED <<users, nextId, poolSize, checkedOut, now, issued, conn, loc, reqUser, trace>>

\* Line 164: await pool.getConnection().
loginGetConnection(r) ==
    /\ pc[r] = "l_getConnection"
    /\ \/ /\ Acquire(r)
          /\ Log(r, "getConnection")
          /\ pc' = [pc EXCEPT ![r] = "l_select"]
          /\ UNCHANGED <<resp, sent>>
       \/ /\ loginError(r, "getConnection")
          /\ UNCHANGED <<checkedOut, conn>>
    /\ UNCHANGED <<users, nextId, poolSize, now, issued, req, loc, reqUser>>

\* Lines 168-186: the lookup by email, then await bcryptjs.compare.
loginSelect(r) ==
    /\ pc[r] = "l_select"
    /\ \/ /\ loginError(r, "select")
          /\ Release(r)
          /\ UNCHANGED loc
       \/ /\ SelectByEmail(req[r].email) = {}
          /\ Log(r, "select")
          /\ loginUserNotFound(r)
          /\ UNCHANGED loc
       \/ \E user \in SelectByEmail(req[r].email) :
              /\ Log(r, "select")
              /\ loc' = [loc EXCEPT ![r].user = user]
              /\ pc' = [pc EXCEPT ![r] = "l_compare"]
              /\ UNCHANGED <<resp, sent, conn, checkedOut>>
    /\ UNCHANGED <<users, nextId, poolSize, now, issued, req, reqUser>>

\* Lines 186-194: bcryptjs.compare resolves (or rejects).
loginCompare(r) ==
    /\ pc[r] = "l_compare"
    /\ \/ /\ loginError(r, "compare")
          /\ Release(r)
       \/ /\ ~BcryptCompare(req[r].password, loc[r].user.password)
          /\ Log(r, "compare")
          /\ loginWrongPassword(r)
       \/ /\ BcryptCompare(req[r].password, loc[r].user.password)
          /\ Log(r, "compare")
          /\ pc' = [pc EXCEPT ![r] = "l_sign"]
          /\ UNCHANGED <<resp, sent, conn, checkedOut>>
    /\ UNCHANGED <<users, nextId, poolSize, now, issued, req, loc, reqUser>>

\* Lines 198-202: the claims login signs, taken from the row read.
LoginClaims(r) ==
    [id |-> loc[r].user.id, email |-> loc[r].user.email,
     username |-> loc[r].user.username]

\* Faulty variant: the row read is returned as it is.
LoginViewWholeRow(r) == loc[r].user

\* Lines 212-217: the user object of the 200 response.
LoginView(r) ==
    [id |-> loc[r].user.id, username |-> loc[r].user.username,
     email |-> loc[r].user.email, full_name |-> loc[r].user.full_name]

\* Lines 197-224: jwt.sign, the 200 response, and the finally block.
loginSign(r) ==
    /\ pc[r] = "l_sign"
    /\ Release(r)
    /\ \/ /\ loginError(r, "sign")
          /\ UNCHANGED issued
       \/ LET token == JwtSign(LoginClaims(r), JWT_SECRET, JWT_EXPIRY)
          IN  /\ Log(r, "sign")
              /\ issued' = issued \cup {token}
              /\ Respond(r, 200, "Login successful", token, LoginView(r))
              /\ pc' = [pc EXCEPT ![r] = "done"]
    /\ UNCHANGED <<users, nextId, poolSize, now, req, loc, reqUser>>

login(r) ==
    \/ loginValidate(r)
    \/ loginGetConnection(r)
    \/ loginSelect(r)
    \/ loginCompare(r)
    \/ loginSign(r)

\* ------------------------------------------------------------------ profile
\* Lines 248-281 of getProfile run only with req.user set; reaching them parks
\* the request at the await of pool.getConnection().
getProfile(r) ==
    IF reqUser'[r] = NoClaims
    THEN /\ Respond(r, 401, "Unauthorized", NoToken, NoView)
         /\ pc' = [pc EXCEPT ![r] = "done"]
    ELSE /\ pc' = [pc EXCEPT ![r] = "p_getConnection"]
         /\ UNCHANGED <<resp, sent>>

\* Faulty variant: any header that is present is taken for a bearer token.
HeaderAcceptedPresentOnly(header) == header.present

\* Line 60: the header is present and starts with "Bearer ".
HeaderAccepted(header) == header.present /\ StartsWith(header.text, BearerPrefix)

\* Line 72: jwt.verify(token, process.env.JWT_SECRET || 'secret') does not throw.
VerifyOk(header) ==
    LET rest == Substring(header, BearerLen)
    IN  rest.text = <<>> /\ JwtVerifies(rest.token, JWT_SECRET)

\* Lines 74-79: the assignment of req.user is commented out.
AttachUser(r, decoded) == UNCHANGED reqUser

\* Faulty variant: the catch block continues to the wrapped operation.
verifyTokenCatchCallsNext(r) ==
    /\ trace' = [trace EXCEPT ![r] = @ \o <<"verify", "next", "getProfile">>]
    /\ getProfile(r)

\* Lines 82-98: the catch block; every response in it is commented out.
verifyTokenCatch(r) ==
    /\ pc' = [pc EXCEPT ![r] = "hung"]
    /\ Log(r, "verify")
    /\ UNCHANGED <<resp, sent>>

\* router.get('/profile', verifyToken, getProfile): the gate, and on next()
\* the synchronous head of getProfile.
verifyToken(r) ==
    /\ pc[r] = "idle"
    /\ \E header \in Headers :
        /\ req' = [req EXCEPT ![r] = [op |-> "profile", header |-> header]]
        /\ IF ~HeaderAccepted(header)
           THEN /\ Respond(r, 401,
                      "No token provided. Use format: Authorization: Bearer <token>",
                      NoToken, NoView)
                /\ pc' = [pc EXCEPT ![r] = "done"]
                /\ UNCHANGED <<reqUser, trace>>
           ELSE IF VerifyOk(header)
           THEN /\ AttachUser(r, Substring(header, BearerLen).token.claims)
                /\ trace' = [trace EXCEPT ![r] = @ \o <<"verify", "next", "getProfile">>]
                /\ getProfile(r)
           ELSE /\ UNCHANGED reqUser
                /\ verifyTokenCatch(r)
    /\ UNCHANGED <<users, nextId, poolSize, checkedOut, now, issued, conn, loc>>

\* The clock advances.
Tick ==
    /\ now < MaxTime
    /\ now' = now + 1
    /\ UNCHANGED <<users, nextId, poolSize, checkedOut, issued, pc, req, conn, loc,
                   reqUser, resp, sent, trace>>

Next ==
    \/ \E r \in Reqs : register(r)
    \/ \E r \in Reqs : login(r)
    \/ \E r \in Reqs : verifyToken(r)
    \/ Tick

Spec == Init /\ [][Next]_vars

\* A step of a handler past its start in which no collaborator call throws.
Proceed(r) ==
    /\ pc[r] # "idle"
    /\ register(r) \/ login(r)
    /\ ~\E i \in 1..Len(trace'[r]) : trace'[r][i] = "throw"

\* The event loop runs every continuation that is ready, and the pool hands a
\* released connection to a waiting getConnection.
FairSpec == Spec /\ \A r \in Reqs : WF_vars(Proceed(r))

\* ------------------------------------------------------------------- claims
InSeq(s, ev) == \E i \in 1..Len(s) : s[i] = ev
Called(r, ev) == InSeq(trace[r], ev)
IsProfile(r) == req[r].op = "profile"
IsRegister(r) == req[r].op = "register"
IsLogin(r) == req[r].op = "login"
\* The header is there and its first seven characters are "Bearer ".
HasBearer(header) ==
    /\ header.present
    /\ Len(header.text) >= 7
    /\ \A i \in 1..7 : header.text[i] = BearerPrefix[i]

\* C1: a profile request whose Authorization header carries a token that fails
\* verification (so the gate did not call next) is answered with 401.
C1_BadTokenGets401 ==
    \A r \in Reqs :
        (IsProfile(r) /\ HasBearer(req[r].header) /\ ~Called(r, "next"))
            => resp[r].status = 401

\* C2: once verification has succeeded and the gate has continued, req.user
\* holds the claims {id, email, username} of the token.
C2_ClaimsAttachedOnSuccess ==
    \A r \in Reqs :
        Called(r, "next") =>
            /\ reqUser[r] = req[r].header.token.claims
            /\ reqUser[r] # NoClaims

\* C3: a profile request with a valid token is answered 200 when the user id
\* of the token is in the store and 404 when it is not; 401 is answered only
\* when the token is missing or invalid.
C3_ProfileStatusByToken ==
    \A r \in Reqs :
        IsProfile(r) =>
            /\ Called(r, "next") =>
                   resp[r].status =
                       IF \E u \in users : u.id = req[r].header.token.claims.id
                       THEN 200 ELSE 404
            /\ resp[r].status = 401 => ~Called(r, "next")

\* C4: a profile request whose Authorization header is absent or does not
\* start with "Bearer " gets 401 with the 'No token provided...' message, and
\* neither jwt.verify nor the wrapped operation is called.
C4_NoBearerNoVerify ==
    \A r \in Reqs :
        (IsProfile(r) /\ ~HasBearer(req[r].header)) =>
            /\ resp[r].status = 401
            /\ resp[r].message =
                   "No token provided. Use format: Authorization: Bearer <token>"
            /\ sent[r] = 1
            /\ pc[r] = "done"
            /\ trace[r] = <<>>

C4_Witness ==
    \E r \in Reqs :
        /\ IsProfile(r)
        /\ req[r].header.present
        /\ req[r].header.text = TokenScheme
        /\ req[r].header.token \in issued
        /\ resp[r].status = 401

\* C5: getProfile is invoked for a request only in the step in which jwt.verify
\* accepted that request's token; a request whose verification failed never
\* moves again (no retry); and the gate touches neither the pool nor the store.
C5_Step(r) ==
    /\ (InSeq(trace'[r], "getProfile") /\ ~Called(r, "getProfile")) =>
           /\ HasBearer(req'[r].header)
           /\ Len(req'[r].header.text) = 7
           /\ req'[r].header.token.fmt = "jwt"
           /\ req'[r].header.token.sig = JWT_SECRET
           /\ now < req'[r].header.token.exp
           /\ trace'[r] = <<"verify", "next", "getProfile">>
    /\ pc[r] = "hung" =>
           /\ pc'[r] = "hung"
           /\ trace'[r] = trace[r]
           /\ resp'[r] = resp[r]
    /\ (pc[r] = "idle" /\ req'[r].op = "profile") =>
           /\ users' = users
           /\ checkedOut' = checkedOut
           /\ conn' = conn
           /\ ~InSeq(trace'[r], "getConnection")
           /\ ~InSeq(trace'[r], "select")
           /\ Cardinality({i \in 1..Len(trace'[r]) : trace'[r][i] = "verify"}) <= 1

C5_GetProfileOnlyAfterVerify == [][\A r \in Reqs : C5_Step(r)]_vars

C5_Witness ==
    \E r \in Reqs :
        /\ Called(r, "getProfile")
        /\ req[r].header.token \in issued

\* C6: a request holds a connection only between its getConnection and its
\* exit; a finished request holds none, and when no request is in flight the
\* number of connections checked out is zero.
C6_AllReleased ==
    /\ checkedOut = Cardinality({r \in Reqs : conn[r]})
    /\ checkedOut <= poolSize
    /\ \A r \in Reqs : pc[r] \in {"idle", "done", "hung"} => ~conn[r]
    /\ (\A r \in Reqs : pc[r] \in {"idle", "done", "hung"}) => checkedOut = 0

C6_Witness ==
    /\ \A r \in Reqs : pc[r] = "done"
    /\ \E r \in Reqs : resp[r].status = 409
    /\ \E r \in Reqs : resp[r].status = 500 /\ Called(r, "select")
    /\ checkedOut = 0

\* C7: the store never holds two users with the same email or the same
\* username; of two register requests carrying the same email or the same
\* username at most one is answered 201, and the other, once it has passed
\* validation and been answered, is answered 409 or 500.
C7_UniqueRegistration ==
    /\ \A u1, u2 \in users :
           (u1.email = u2.email \/ u1.username = u2.username) => u1 = u2
    /\ \A r1, r2 \in Reqs :
           (/\ r1 # r2
            /\ IsRegister(r1) /\ IsRegister(r2)
            /\ \/ req[r1].email = req[r2].email
               \/ req[r1].username = req[r2].username
            /\ resp[r1].status = 201) =>
               /\ resp[r2].status # 201
               /\ (pc[r2] = "done" /\ resp[r2].status # 400) =>
                      resp[r2].status \in {409, 500}

C7_Witness ==
    \E r1, r2 \in Reqs :
        /\ IsRegister(r1) /\ IsRegister(r2)
        /\ req[r1].email = req[r2].email
        /\ resp[r1].status = 201
        /\ resp[r2].status = 500
        /\ trace[r2] = <<"getConnection", "select", "hash", "insert", "throw">>
        /\ Cardinality(users) = 1

\* local@domain.tld: one "@", no white space, a "." inside what follows the "@".
LocalAtDomainTld(e) ==
    \E i, j \in 1..Len(e) :
        /\ 1 < i /\ i + 1 < j /\ j < Len(e)
        /\ e[i] = "@" /\ e[j] = "."
        /\ \A k \in 1..Len(e) : k # i => e[k] \notin {" ", "@"}

\* C8: a register request with an empty username, email or password, an email
\* that is not local@domain.tld, or a password shorter than 6 is answered 400
\* without a connection, a query, an insert or a hash; a login request with an
\* empty email or password likewise.
C8_InvalidNeverReachesStore ==
    \A r \in Reqs :
        (\/ /\ IsRegister(r)
            /\ \/ req[r].username = "" \/ req[r].email = <<>>
               \/ req[r].password = ""
               \/ ~LocalAtDomainTld(req[r].email)
               \/ Len(req[r].password) < 6
         \/ /\ IsLogin(r)
            /\ req[r].email = <<>> \/ req[r].password = "") =>
            /\ resp[r].status = 400
            /\ sent[r] = 1
            /\ pc[r] = "done"
            /\ trace[r] = <<>>
            /\ ~conn[r]

C8_Witness ==
    \E r \in Reqs :
        /\ IsRegister(r)
        /\ req[r].username = "alice"
        /\ LocalAtDomainTld(req[r].email)
        /\ Len(req[r].password) = 5
        /\ resp[r].status = 400

\* C9: when the duplicate pre-check of register runs against a store that
\* holds a user with the request's email or username, the request ends there
\* with 409 (500 if the query itself threw): no hash, no insert, no token, and
\* the users are unchanged.
C9_Step(r) ==
    (/\ pc[r] = "r_select"
     /\ pc'[r] # "r_select"
     /\ \E u \in users : u.email = req[r].email \/ u.username = req[r].username) =>
        /\ pc'[r] = "done"
        /\ resp'[r].status \in {409, 500}
        /\ ~InSeq(trace'[r], "throw") => resp'[r].status = 409
        /\ resp'[r].token = NoToken
        /\ users' = users
        /\ issued' = issued
        /\ ~InSeq(trace'[r], "hash")
        /\ ~InSeq(trace'[r], "insert")
        /\ ~InSeq(trace'[r], "sign")
        /\ ~conn'[r]

C9_ConflictStopsRegister == [][\A r \in Reqs : C9_Step(r)]_vars

C9_Witness ==
    \E r \in Reqs :
        /\ IsRegister(r)
        /\ resp[r].status = 409
        /\ \E u \in users : u.username = req[r].username /\ u.email # req[r].email

\* C10: a login whose email is not in the store and a login whose password
\* does not match the stored hash end with the same response: status 401,
\* message 'Invalid email or password', no token, no user.
C10_Step(r) ==
    (/\ IsLogin(r)
     /\ pc[r] # "done" /\ pc'[r] = "done"
     /\ ~InSeq(trace'[r], "throw")
     /\ \/ pc[r] = "l_select" /\ ~\E u \in users : u.email = req[r].email
        \/ pc[r] = "l_compare" /\ loc[r].user.password.of # req[r].password) =>
        resp'[r] = [status |-> 401, message |-> "Invalid email or password",
                    token |-> NoToken, user |-> NoView]

C10_SameLoginRejection == [][\A r \in Reqs : C10_Step(r)]_vars

C10_Witness ==
    \E r \in Reqs :
        /\ IsLogin(r)
        /\ Called(r, "compare")
        /\ ~Called(r, "throw")
        /\ resp[r].status = 401
        /\ \E u \in users : u.email = req[r].email

\* C11: every token issued carries the id, email and username of a row of the
\* store; a register response's token carries the insertId and the submitted
\* email and username, a login response's token the fields of the row read.
C11_ClaimsMatchRow ==
    /\ \A t \in issued :
           \E u \in users :
               /\ u.id = t.claims.id
               /\ u.email = t.claims.email
               /\ u.username = t.claims.username
    /\ \A r \in Reqs :
           resp[r].token # NoToken =>
               /\ resp[r].token \in issued
               /\ DOMAIN resp[r].token.claims = {"id", "email", "username"}
               /\ IsRegister(r) =>
                      /\ resp[r].token.claims.id = loc[r].insertId
                      /\ resp[r].token.claims.email = req[r].email
                      /\ resp[r].token.claims.username = req[r].username
               /\ IsLogin(r) =>
                      /\ loc[r].user \in users
                      /\ resp[r].token.claims.id = loc[r].user.id
                      /\ resp[r].token.claims.email = req[r].email
                      /\ resp[r].token.claims.username = loc[r].user.username

C11_Witness ==
    \E r1, r2 \in Reqs :
        /\ IsRegister(r1) /\ resp[r1].status = 201
        /\ IsLogin(r2) /\ resp[r2].status = 200
        /\ resp[r2].token.claims = resp[r1].token.claims

\* C12: a register or login request in which a store call, the hasher or the
\* signing threw is answered once, with 500 and the handler's generic message,
\* and makes no call after the one that threw; 500 is sent for nothing else.
C12_FailureIs500 ==
    \A r \in Reqs :
        /\ Called(r, "throw") =>
               /\ IsRegister(r) \/ IsLogin(r)
               /\ pc[r] = "done"
               /\ sent[r] = 1
               /\ resp[r].status = 500
               /\ resp[r].message = IF IsRegister(r) THEN "Error during registration"
                                    ELSE "Error during login"
               /\ resp[r].token = NoToken
               /\ resp[r].user = NoView
               /\ trace[r][Len(trace[r])] = "throw"
               /\ \A i, j \in 1..Len(trace[r]) : trace[r][i] = trace[r][j] => i = j
        /\ resp[r].status = 500 => Called(r, "throw")

C12_Witness ==
    \E r \in Reqs :
        /\ IsLogin(r)
        /\ trace[r] = <<"getConnection", "select", "compare", "throw">>
        /\ resp[r].status = 500

\* C13: the user object of a response has no field other than id, username,
\* email, full_name and created_at, and none of its strings is a password.
C13_NoPasswordInResponse ==
    \A r \in Reqs :
        /\ DOMAIN resp[r] = {"status", "message", "token", "user"}
        /\ DOMAIN resp[r].user \subseteq
               {"id", "username", "email", "full_name", "created_at"}
        /\ DOMAIN resp[r].token.claims = {"id", "email", "username"}
        /\ resp[r].user.username \notin Passwords \ {""}
        /\ resp[r].user.full_name \notin Passwords \ {""}
        /\ resp[r].message \notin Passwords \ {""}

C13_Witness ==
    \E r \in Reqs :
        /\ IsLogin(r)
        /\ resp[r].status = 200
        /\ resp[r].user.full_name = "Al"
        /\ loc[r].user.password.of = req[r].password

\* C14: the password of every row is the bcrypt hash, at cost 10, of the
\* password of the register request that inserted it, and that request called
\* the hasher, without a throw, before it inserted.
C14_StoredPasswordIsHash ==
    \A u \in users :
        /\ u.password.alg = "bcrypt"
        /\ u.password.cost = 10
        /\ \E r \in Reqs :
               /\ IsRegister(r)
               /\ loc[r].insertId = u.id
               /\ u.password.of = req[r].password
               /\ u.password = loc[r].hashedPassword
               /\ SubSeq(trace[r], 1, 4) = <<"getConnection", "select", "hash", "insert">>

C14_Witness ==
    \E r \in Reqs, u \in users :
        /\ pc[r] = "r_sign"
        /\ loc[r].insertId = u.id
        /\ u.password.of = "secret1"

\* C15: no request holds a pool connection while it awaits bcryptjs.hash or
\* bcryptjs.compare, or when it is about to run jwt.sign.
C15_NoConnDuringCpuWork ==
    \A r \in Reqs :
        pc[r] \in {"r_hash", "l_compare", "r_sign", "l_sign"} => ~conn[r]

\* C16: a login that reaches jwt.sign, holds a token or is answered 200 has
\* read a row of the store for its email and has had bcryptjs.compare accept
\* its password against that row's hash, in that order.
C16_TokenOnlyAfterVerify ==
    \A r \in Reqs :
        (/\ IsLogin(r)
         /\ \/ pc[r] = "l_sign" \/ Called(r, "sign")
            \/ resp[r].status = 200 \/ resp[r].token # NoToken) =>
            /\ loc[r].user \in users
            /\ loc[r].user.email = req[r].email
            /\ loc[r].user.password.alg = "bcrypt"
            /\ loc[r].user.password.of = req[r].password
            /\ SubSeq(trace[r], 1, 3) = <<"getConnection", "select", "compare">>
            /\ ~Called(r, "throw") => resp[r].status \in {0, 200}

C16_Witness ==
    \E r \in Reqs :
        /\ IsLogin(r)
        /\ pc[r] = "l_sign"
        /\ loc[r].user \in users

\* C17: a token issued at iat expires at iat + JWT_EXPIRY; presented in a
\* Bearer header it passes the gate at any time before that and does not pass
\* at any time after it; the clock never goes back and issued tokens never
\* change, so a token that has stopped passing never passes again.
C17_Step(r) ==
    /\ (/\ pc[r] = "idle"
        /\ req'[r].op = "profile"
        /\ req'[r].header.present
        /\ req'[r].header.text = BearerPrefix
        /\ req'[r].header.token \in issued) =>
           LET t == req'[r].header.token
           IN  /\ t.exp = t.iat + JWT_EXPIRY
               /\ now < t.iat + JWT_EXPIRY => InSeq(trace'[r], "next")
               /\ now > t.iat + JWT_EXPIRY => ~InSeq(trace'[r], "next")
    /\ now' >= now
    /\ issued \subseteq issued'
    /\ \A t \in issued : now >= t.exp => now' >= t.exp

C17_ExpiryAtGate == [][\A r \in Reqs : C17_Step(r)]_vars

C17_Witness ==
    \E r \in Reqs :
        /\ IsProfile(r)
        /\ req[r].header.text = BearerPrefix
        /\ req[r].header.token \in issued
        /\ now > req[r].header.token.exp
        /\ pc[r] = "hung"

\* C18: a request that has come to rest has been sent exactly one response,
\* and no request is ever sent two.
C18_ExactlyOneResponse ==
    \A r \in Reqs :
        /\ sent[r] <= 1
        /\ pc[r] \in {"done", "hung"} => sent[r] = 1

\* The row a register request inserted is in the store.
Inserted(r) ==
    \E u \in users :
        /\ u.id = loc[r].insertId
        /\ u.username = req[r].username
        /\ u.email = req[r].email

\* C19 (as claimed): a finished register request has left a row in the store
\* if and only if it was answered 201 with a token.
C19_RowIffCreated ==
    \A r \in Reqs :
        (IsRegister(r) /\ pc[r] = "done") =>
            (Inserted(r) <=> (resp[r].status = 201 /\ resp[r].token # NoToken))

\* C19 (amended): a finished register request has left a row in the store if
\* and only if it was answered 201 with a token, or answered 500 because
\* jwt.sign threw after the insert; the store holds no other rows.
C19_RowIffCreatedOrSignFailed ==
    /\ \A r \in Reqs :
           (IsRegister(r) /\ pc[r] = "done") =>
               (Inserted(r) <=>
                    \/ resp[r].status = 201 /\ resp[r].token # NoToken
                    \/ /\ resp[r].status = 500
                       /\ trace[r] = <<"getConnection", "select", "hash",
                                       "insert", "sign", "throw">>)
    /\ \A u \in users : \E r \in Reqs : IsRegister(r) /\ loc[r].insertId = u.id

C19_Witness ==
    \E r \in Reqs :
        /\ IsRegister(r)
        /\ pc[r] = "done"
        /\ resp[r].status = 500
        /\ Called(r, "sign")
        /\ Inserted(r)

Waiting(r) == pc[r] \in {"r_getConnection", "l_getConnection"}

\* C20: a request that holds a connection is never waiting for another one, so
\* whenever a request waits on an exhausted pool some holder can take its next
\* step; and under fair scheduling every request waiting for a connection gets
\* one (or the pool's rejection), for every pool size from 1 to MaxPoolSize.
C20_Safe ==
    \A r \in Reqs :
        /\ conn[r] => ~Waiting(r)
        /\ (Waiting(r) /\ checkedOut >= poolSize) =>
               \E q \in Reqs : conn[q] /\ ENABLED Proceed(q)

C20_NoPoolDeadlock ==
    /\ []C20_Safe
    /\ \A r \in Reqs :
           Waiting(r) ~> (conn[r] \/ Called(r, "throw"))

C20_Witness ==
    \E r, q \in Reqs :
        /\ Waiting(r)
        /\ conn[q]
        /\ poolSize = 1

====
